---- MODULE Spec2Model ----
(***************************************************************************)
(* Model of the contact cleaner in src/main.py.                            *)
(*                                                                         *)
(* A Python string is a sequence of one-character tokens: <<"a","@","b">>  *)
(* is "a@b".  The token "sz" stands for U+00DF (LATIN SMALL LETTER SHARP   *)
(* S), the simplest character whose upper-case form is two characters.     *)
(* The model follows the Python 3 runtime (PY2 is FALSE): str is Unicode   *)
(* text and dict keeps insertion order.                                    *)
(***************************************************************************)
EXTENDS Integers, Sequences, FiniteSets, TLC

\* ------------------------------------------------------------------ bounds
MaxRows == 3
MaxLen == 5
MaxApply == 2

\* ------------------------------------------------------- module constants
PY2 == FALSE
DATA_FILE == "data/contacts_raw.csv"
OUTPUT_DIR == "output"
FIELDNAMES == <<"name", "email", "phone", "company">>
None == <<"None">>

\* ------------------------------------------------------ character classes
LowerLetters == <<"a","b","c","d","e","f","g","h","i","j","k","l","m",
                  "n","o","p","q","r","s","t","u","v","w","x","y","z">>
UpperLetters == <<"A","B","C","D","E","F","G","H","I","J","K","L","M",
                  "N","O","P","Q","R","S","T","U","V","W","X","Y","Z">>
LetterIdx == 1..Len(LowerLetters)

IsUpper(c) == \E i \in LetterIdx : UpperLetters[i] = c
IsLower(c) == (\E i \in LetterIdx : LowerLetters[i] = c) \/ c = "sz"
IsCased(c) == IsUpper(c) \/ IsLower(c)
IsSpace(c) == c \in {" ", "\t", "\n"}
IsDigit(c) == c \in {"0","1","2","3","4","5","6","7","8","9"}

\* str.upper(), str.lower() and the title-case mapping of one character;
\* the result is a string because a mapping may expand ("sz" -> "SS").
UpperChar(c) ==
    IF c = "sz" THEN <<"S", "S">>
    ELSE IF \E i \in LetterIdx : LowerLetters[i] = c
         THEN <<UpperLetters[CHOOSE i \in LetterIdx : LowerLetters[i] = c]>>
         ELSE <<c>>
LowerChar(c) ==
    IF IsUpper(c)
    THEN <<LowerLetters[CHOOSE i \in LetterIdx : UpperLetters[i] = c]>>
    ELSE <<c>>
TitleChar(c) ==
    IF c = "sz" THEN <<"S", "s">> ELSE UpperChar(c)

RECURSIVE upper(_)
upper(s) == IF s = <<>> THEN <<>> ELSE UpperChar(Head(s)) \o upper(Tail(s))
RECURSIVE lower(_)
lower(s) == IF s = <<>> THEN <<>> ELSE LowerChar(Head(s)) \o lower(Tail(s))

\* str.title(): a character after a cased one is lower-cased, any other
\* is title-cased.
RECURSIVE TitleFrom(_, _)
TitleFrom(s, previous_is_cased) ==
    IF s = <<>> THEN <<>>
    ELSE (IF previous_is_cased THEN LowerChar(Head(s)) ELSE TitleChar(Head(s)))
         \o TitleFrom(Tail(s), IsCased(Head(s)))
title(s) == TitleFrom(s, FALSE)

\* ---------------------------------------------------------- str helpers
RECURSIVE lstrip(_)
lstrip(s) == IF s # <<>> /\ IsSpace(Head(s)) THEN lstrip(Tail(s)) ELSE s
RECURSIVE rstrip(_)
rstrip(s) ==
    IF s # <<>> /\ IsSpace(s[Len(s)]) THEN rstrip(SubSeq(s, 1, Len(s) - 1)) ELSE s
strip(s) == rstrip(lstrip(s))

\* re.sub(r"\s+", " ", s)
RECURSIVE CollapseSpaces(_)
CollapseSpaces(s) ==
    IF s = <<>> THEN <<>>
    ELSE IF IsSpace(Head(s))
         THEN <<" ">> \o CollapseSpaces(lstrip(s))
         ELSE <<Head(s)>> \o CollapseSpaces(Tail(s))

\* str.split(sep) for a one-character separator: always at least one piece.
RECURSIVE split(_, _)
split(s, sep) ==
    IF \E i \in 1..Len(s) : s[i] = sep
    THEN LET i == CHOOSE k \in 1..Len(s) :
                     s[k] = sep /\ \A m \in 1..(k - 1) : s[m] # sep
         IN  <<SubSeq(s, 1, i - 1)>> \o split(SubSeq(s, i + 1, Len(s)), sep)
    ELSE <<s>>

\* sep.join(parts)
RECURSIVE join(_, _)
join(parts, sep) ==
    IF parts = <<>> THEN <<>>
    ELSE IF Len(parts) = 1 THEN parts[1]
         ELSE parts[1] \o <<sep>> \o join(Tail(parts), sep)

startswith(s, prefix) ==
    Len(s) >= Len(prefix) /\ SubSeq(s, 1, Len(prefix)) = prefix

\* ------------------------------------------------------ field normalizer
normalise_spaces(text) ==
    CollapseSpaces(strip(IF text = None \/ text = <<>> THEN <<>> ELSE text))

\* p[:1].upper() + p[1:].lower() if p else ""
CapitalisePart(p) ==
    IF p = <<>> THEN <<>>
    ELSE upper(SubSeq(p, 1, 1)) \o lower(SubSeq(p, 2, Len(p)))

CleanWord(word) ==
    LET parts == split(word, "-")
    IN  join([i \in 1..Len(parts) |-> CapitalisePart(parts[i])], "-")

clean_name(name) ==
    LET n == normalise_spaces(name)
    IN  IF n = <<>> THEN <<>>
        ELSE LET ws == split(n, " ")
             IN  join([i \in 1..Len(ws) |-> CleanWord(ws[i])], " ")

clean_email(email) == lower(normalise_spaces(email))

clean_company(company) ==
    LET c == normalise_spaces(company)
    IN  IF c = <<>> THEN <<>> ELSE title(c)

IsDigitOrPlus(c) == IsDigit(c) \/ c = "+"

clean_phone_0044(phone) ==
    LET p1 == SelectSeq(normalise_spaces(phone), IsDigitOrPlus)
        p2 == IF startswith(p1, <<"+", "4", "4">>)
              THEN <<"0">> \o SubSeq(p1, 4, Len(p1))
              ELSE IF startswith(p1, <<"0", "0", "4", "4">>)
                   THEN <<"0">> \o SubSeq(p1, 5, Len(p1))
                   ELSE p1
    IN  SelectSeq(p2, IsDigit)
clean_phone(phone) ==
    LET p1 == SelectSeq(normalise_spaces(phone), IsDigitOrPlus)
        p2 == IF startswith(p1, <<"+", "4", "4">>)
              THEN <<"0">> \o SubSeq(p1, 4, Len(p1))
              ELSE p1
    IN  SelectSeq(p2, IsDigit)

Get(row, key) == IF key \in DOMAIN row THEN row[key] ELSE <<>>

clean_contact(row) ==
    [name    |-> clean_name(Get(row, "name")),
     email   |-> clean_email(Get(row, "email")),
     phone   |-> clean_phone(Get(row, "phone")),
     company |-> clean_company(Get(row, "company"))]

\* ------------------------------------------------------------ validators
\* [^@\s]
IsAddrChar(c) == c # "@" /\ ~IsSpace(c)
AllAddr(s, a, b) == \A k \in a..b : IsAddrChar(s[k])

AtEnd_unanchored(s, e) == TRUE
\* "$" matches at the end of the string and just before a final newline.
AtEnd(s, e) == e = Len(s) \/ (e = Len(s) - 1 /\ s[Len(s)] = "\n")

\* re.match(r"^[^@\s]+@[^@\s]+\.[^@\s]+$", s): i is the position of "@",
\* j of the "." that ends the second group, e the last matched position.
EmailPatternMatches(s) ==
    \E i \in 2..Len(s) : \E j \in (i + 2)..Len(s) : \E e \in (j + 1)..Len(s) :
        /\ AllAddr(s, 1, i - 1)
        /\ s[i] = "@"
        /\ AllAddr(s, i + 1, j - 1)
        /\ s[j] = "."
        /\ AllAddr(s, j + 1, e)
        /\ AtEnd(s, e)

is_valid_email(email) == EmailPatternMatches(strip(email))

isdigit(s) == s # <<>> /\ \A k \in 1..Len(s) : IsDigit(s[k])

is_valid_uk_phone(phone) ==
    isdigit(phone) /\ startswith(phone, <<"0">>) /\ 10 <= Len(phone) /\ Len(phone) <= 11

completeness_score(contact) ==
    Cardinality({k \in 1..Len(FIELDNAMES) : contact[FIELDNAMES[k]] # <<>>})

\* ------------------------------------------------------------- the input
\* Raw field values found in the rows of data/contacts_raw.csv.
N_scenario == <<" "," ","a","m","y","-","w","a","l","k","e","r"," ","j","o","n","e","s"," ">>
N_amy == <<"a","m","y">>
E_scenario == <<" ","A","M","Y","@","E","x","a","m","p","l","e",".","C","O","M"," ">>
E_amy == <<"a","m","y","@","e","x","a","m","p","l","e",".","c","o","m">>
E_nodot == <<"a","@","b">>
E_tail == <<"a","@","b",".","c","@","d">>
E_noemail == <<"N","O","E","M","A","I","L","_","1">>
P_scenario == <<"+","4","4"," ","7","7","0","0"," ","9","0","0","1","2","3">>
P_national == <<"0","7","7","0","0","9","0","0","1","2","3">>
P_short == <<"0","1","2","3">>
C_acme == <<"a","c","m","e"," ","l","t","d">>

Row(n, e, p, c) == [name |-> n, email |-> e, phone |-> p, company |-> c]

RawRows ==
    { Row(N_scenario, E_scenario, P_scenario, C_acme),
      Row(N_amy, E_amy, <<>>, <<>>),
      Row(<<>>, E_amy, P_national, <<>>),
      Row(None, E_amy, <<>>, <<>>),
      Row(N_amy, <<>>, <<>>, <<>>),
      [name |-> N_amy, phone |-> <<>>, company |-> <<>>],
      Row(<<>>, E_noemail, <<>>, <<>>),
      Row(N_amy, E_nodot, P_short, <<>>),
      Row(<<>>, E_tail, <<>>, C_acme) }

RowSeqs == UNION { [1..n -> RawRows] : n \in 0..MaxRows }

\* ----------------------------------------------------------------- state
VARIABLES
    pc,                 \* position of main()
    fileExists,         \* whether DATA_FILE exists
    fileRows,           \* the data rows of DATA_FILE
    dirExists,          \* whether OUTPUT_DIR exists
    readAttempted,      \* DATA_FILE has been opened for reading
    contacts,           \* main: contacts
    row_i,              \* rows consumed by the accumulation loop
    cleaned_contacts,   \* main: cleaned_contacts
    stats,              \* main: stats
    dedup_i,            \* records consumed by the dedup loop
    deduped,            \* main: deduped, entries in insertion order
    duplicates_removed, \* main: duplicates_removed
    deduped_contacts,   \* main: deduped_contacts
    csvFile,            \* output/cleaned_contacts.csv
    reportFile,         \* output/cleaning_report.txt
    error,              \* the exception that ended the run, if any
    fn, arg, val, prev, applied, valid   \* application of one pure function

pipeVars == <<pc, fileExists, fileRows, dirExists, readAttempted, contacts,
              row_i, cleaned_contacts, stats, dedup_i, deduped,
              duplicates_removed, deduped_contacts, csvFile, reportFile, error>>
fnVars == <<fn, arg, val, prev, applied, valid>>
vars == <<pipeVars, fnVars>>

NoError == [type |-> "none", msg |-> <<>>]
Untouched == [state |-> "untouched", content |-> <<>>]

STATS_INIT ==
    [total |-> 0, missing_name |-> 0, missing_email |-> 0, invalid_email |-> 0,
     missing_phone |-> 0, invalid_phone |-> 0, missing_company |-> 0]

PipeStart ==
    /\ pc = "ensure_dir"
    /\ readAttempted = FALSE
    /\ contacts = <<>>
    /\ row_i = 0
    /\ cleaned_contacts = <<>>
    /\ stats = STATS_INIT
    /\ dedup_i = 0
    /\ deduped = <<>>
    /\ duplicates_removed = 0
    /\ deduped_contacts = <<>>
    /\ csvFile = Untouched
    /\ reportFile = Untouched
    /\ error = NoError

FnIdle ==
    /\ fn = "none"
    /\ arg = <<>>
    /\ val = <<>>
    /\ prev = <<>>
    /\ applied = 0
    /\ valid = FALSE

Init ==
    /\ PipeStart
    /\ FnIdle
    /\ dirExists \in BOOLEAN
    /\ fileExists \in BOOLEAN
    /\ fileRows \in (IF fileExists THEN RowSeqs ELSE {<<>>})

Fail(type, msg) ==
    /\ pc' = "failed"
    /\ error' = [type |-> type, msg |-> msg]

\* ------------------------------------------------------------------ dict
\* A dict is the sequence of its [k, v] entries in insertion order.
HasKey(d, k) == \E p \in 1..Len(d) : d[p].k = k
DictGet(d, k) == d[CHOOSE p \in 1..Len(d) : d[p].k = k].v
DictSet_moves(d, k, v) ==
    Append(SelectSeq(d, LAMBDA e : e.k # k), [k |-> k, v |-> v])
\* d[k] = v: a present key keeps its position and gets the new value.
DictSet(d, k, v) ==
    IF HasKey(d, k)
    THEN [p \in 1..Len(d) |-> IF d[p].k = k THEN [k |-> k, v |-> v] ELSE d[p]]
    ELSE Append(d, [k |-> k, v |-> v])
DictValues(d) == [p \in 1..Len(d) |-> d[p].v]

\* "{}".format(n) for a natural number
Digits == <<"0","1","2","3","4","5","6","7","8","9">>
RECURSIVE Str(_)
Str(n) == IF n < 10 THEN <<Digits[n + 1]>> ELSE Str(n \div 10) \o <<Digits[(n % 10) + 1]>>

\* id(c): cleaned_contacts keeps every record alive, so the ids of its
\* members are pairwise distinct; a record is identified by its position.
id(c) == c
NoEmailKey_noid(c) == <<"N","O","E","M","A","I","L","_">>
NoEmailKey(c) == <<"N","O","E","M","A","I","L","_">> \o Str(id(c))

os_path_exists_skipped(path) == TRUE
\* ------------------------------------------------------- main: load step
os_path_exists(path) == path = DATA_FILE /\ fileExists

EnsureDir ==
    /\ pc = "ensure_dir"
    /\ pc' = "load"
    /\ dirExists' = TRUE
    /\ UNCHANGED <<fileExists, fileRows, readAttempted, contacts, row_i,
                   cleaned_contacts, stats, dedup_i, deduped, duplicates_removed,
                   deduped_contacts, csvFile, reportFile, error, fnVars>>

\* os.makedirs raises
EnsureDirFail ==
    /\ pc = "ensure_dir"
    /\ ~dirExists
    /\ Fail("OSError", <<OUTPUT_DIR>>)
    /\ UNCHANGED <<fileExists, fileRows, dirExists, readAttempted, contacts, row_i,
                   cleaned_contacts, stats, dedup_i, deduped, duplicates_removed,
                   deduped_contacts, csvFile, reportFile, fnVars>>

LoadMissing ==
    /\ pc = "load"
    /\ ~os_path_exists(DATA_FILE)
    /\ Fail("IOError", <<"Contacts file not found: ", DATA_FILE>>)
    /\ UNCHANGED <<fileExists, fileRows, dirExists, readAttempted, contacts, row_i,
                   cleaned_contacts, stats, dedup_i, deduped, duplicates_removed,
                   deduped_contacts, csvFile, reportFile, fnVars>>

\* The existence check passed and open() or the csv reader raises
\* (permissions, malformed content); the file has been opened or tried.
LoadReadFail ==
    /\ pc = "load"
    /\ os_path_exists(DATA_FILE)
    /\ readAttempted' = TRUE
    /\ Fail("OSError", <<"read failed: ", DATA_FILE>>)
    /\ UNCHANGED <<fileExists, fileRows, dirExists, contacts, row_i,
                   cleaned_contacts, stats, dedup_i, deduped, duplicates_removed,
                   deduped_contacts, csvFile, reportFile, fnVars>>

LoadOk ==
    /\ pc = "load"
    /\ os_path_exists(DATA_FILE)
    /\ fileExists
    /\ readAttempted' = TRUE
    /\ contacts' = fileRows
    /\ pc' = "clean"
    /\ UNCHANGED <<fileExists, fileRows, dirExists, row_i,
                   cleaned_contacts, stats, dedup_i, deduped, duplicates_removed,
                   deduped_contacts, csvFile, reportFile, error, fnVars>>

\* ----------------------------------------------- main: accumulation pass
Inc(st, key) == [st EXCEPT ![key] = @ + 1]

CountName(st, name) == IF name = <<>> THEN Inc(st, "missing_name") ELSE st

CountEmail_noelif(st, email) ==
    LET st1 == IF email = <<>> THEN Inc(st, "missing_email") ELSE st
    IN  IF ~is_valid_email(email) THEN Inc(st1, "invalid_email") ELSE st1
CountEmail(st, email) ==
    IF email = <<>> THEN Inc(st, "missing_email")
    ELSE IF ~is_valid_email(email) THEN Inc(st, "invalid_email")
    ELSE st

CountPhone(st, phone) ==
    IF phone = <<>> THEN Inc(st, "missing_phone")
    ELSE IF ~is_valid_uk_phone(phone) THEN Inc(st, "invalid_phone")
    ELSE st

CountCompany(st, company) == IF company = <<>> THEN Inc(st, "missing_company") ELSE st

\* one iteration of "for row in contacts"
CleanRow ==
    /\ pc = "clean"
    /\ row_i < Len(contacts)
    /\ LET cleaned == clean_contact(contacts[row_i + 1])
       IN  /\ cleaned_contacts' = Append(cleaned_contacts, cleaned)
           /\ stats' = CountCompany(CountPhone(CountEmail(CountName(
                           Inc(stats, "total"), cleaned.name), cleaned.email),
                           cleaned.phone), cleaned.company)
    /\ row_i' = row_i + 1
    /\ UNCHANGED <<pc, fileExists, fileRows, dirExists, readAttempted, contacts,
                   dedup_i, deduped, duplicates_removed,
                   deduped_contacts, csvFile, reportFile, error, fnVars>>

EndCleanLoop ==
    /\ pc = "clean"
    /\ row_i = Len(contacts)
    /\ pc' = "dedup"
    /\ deduped' = <<>>
    /\ duplicates_removed' = 0
    /\ UNCHANGED <<fileExists, fileRows, dirExists, readAttempted, contacts, row_i,
                   cleaned_contacts, stats, dedup_i,
                   deduped_contacts, csvFile, reportFile, error, fnVars>>

\* ----------------------------------------------------- main: dedup loop
\* deduped maps a key to a record of cleaned_contacts, held by reference:
\* the value of an entry is the record's position in cleaned_contacts.
Rec(c) == cleaned_contacts[c]

ShouldReplace_ties(c, existing) ==
    completeness_score(Rec(c)) >= completeness_score(Rec(existing))
ShouldReplace(c, existing) ==
    completeness_score(Rec(c)) > completeness_score(Rec(existing))

DedupNoEmail ==
    /\ pc = "dedup"
    /\ dedup_i < Len(cleaned_contacts)
    /\ LET c == dedup_i + 1
       IN  /\ Rec(c).email = <<>>
           /\ deduped' = DictSet(deduped, NoEmailKey(c), c)
    /\ dedup_i' = dedup_i + 1
    /\ UNCHANGED <<pc, fileExists, fileRows, dirExists, readAttempted, contacts, row_i,
                   cleaned_contacts, stats, duplicates_removed,
                   deduped_contacts, csvFile, reportFile, error, fnVars>>

DedupInsert ==
    /\ pc = "dedup"
    /\ dedup_i < Len(cleaned_contacts)
    /\ LET c == dedup_i + 1
           email == Rec(c).email
       IN  /\ email # <<>>
           /\ ~HasKey(deduped, email)
           /\ deduped' = DictSet(deduped, email, c)
    /\ dedup_i' = dedup_i + 1
    /\ UNCHANGED <<pc, fileExists, fileRows, dirExists, readAttempted, contacts, row_i,
                   cleaned_contacts, stats, duplicates_removed,
                   deduped_contacts, csvFile, reportFile, error, fnVars>>

DedupDuplicate_countkept ==
    /\ pc = "dedup"
    /\ dedup_i < Len(cleaned_contacts)
    /\ LET c == dedup_i + 1
           email == Rec(c).email
       IN  /\ email # <<>>
           /\ HasKey(deduped, email)
           /\ IF ShouldReplace(c, DictGet(deduped, email))
              THEN /\ deduped' = DictSet(deduped, email, c)
                   /\ duplicates_removed' = duplicates_removed
              ELSE /\ deduped' = deduped
                   /\ duplicates_removed' = duplicates_removed + 1
    /\ dedup_i' = dedup_i + 1
    /\ UNCHANGED <<pc, fileExists, fileRows, dirExists, readAttempted, contacts, row_i,
                   cleaned_contacts, stats,
                   deduped_contacts, csvFile, reportFile, error, fnVars>>
DedupDuplicate ==
    /\ pc = "dedup"
    /\ dedup_i < Len(cleaned_contacts)
    /\ LET c == dedup_i + 1
           email == Rec(c).email
       IN  /\ email # <<>>
           /\ HasKey(deduped, email)
           /\ deduped' = IF ShouldReplace(c, DictGet(deduped, email))
                         THEN DictSet(deduped, email, c)
                         ELSE deduped
    /\ duplicates_removed' = duplicates_removed + 1
    /\ dedup_i' = dedup_i + 1
    /\ UNCHANGED <<pc, fileExists, fileRows, dirExists, readAttempted, contacts, row_i,
                   cleaned_contacts, stats,
                   deduped_contacts, csvFile, reportFile, error, fnVars>>

EndDedupLoop ==
    /\ pc = "dedup"
    /\ dedup_i = Len(cleaned_contacts)
    /\ deduped_contacts' = [p \in 1..Len(deduped) |-> Rec(DictValues(deduped)[p])]
    /\ pc' = "write_csv"
    /\ UNCHANGED <<fileExists, fileRows, dirExists, readAttempted, contacts, row_i,
                   cleaned_contacts, stats, dedup_i, deduped, duplicates_removed,
                   csvFile, reportFile, error, fnVars>>

\* ------------------------------------------------ main: writer / reporter
CsvContent == <<FIELDNAMES>> \o [p \in 1..Len(deduped_contacts) |->
                  [k \in 1..4 |-> deduped_contacts[p][FIELDNAMES[k]]]]

REPORT_KEYS == <<"missing_name", "missing_email", "invalid_email",
                 "missing_phone", "invalid_phone", "missing_company">>

ReportContent ==
    << <<"CLEANING REPORT">>, <<"==============================">>,
       <<"total_rows", stats.total>>,
       <<"rows_after_dedup", Len(deduped_contacts)>>,
       <<"duplicates_removed", duplicates_removed>> >>
    \o [k \in 1..Len(REPORT_KEYS) |-> <<REPORT_KEYS[k], stats[REPORT_KEYS[k]]>>]

Full(content) == [state |-> "full", content |-> content]
\* a write that raised part-way leaves a truncated file behind
Partial(content, k) == [state |-> "partial", content |-> SubSeq(content, 1, k)]

WriteCsv ==
    /\ pc = "write_csv"
    /\ csvFile' = Full(CsvContent)
    /\ pc' = "write_report"
    /\ UNCHANGED <<fileExists, fileRows, dirExists, readAttempted, contacts, row_i,
                   cleaned_contacts, stats, dedup_i, deduped, duplicates_removed,
                   deduped_contacts, reportFile, error, fnVars>>

\* open_csv_write raises: nothing is written
OpenCsvFail ==
    /\ pc = "write_csv"
    /\ Fail("OSError", <<"cleaned_contacts.csv">>)
    /\ UNCHANGED <<fileExists, fileRows, dirExists, readAttempted, contacts, row_i,
                   cleaned_contacts, stats, dedup_i, deduped, duplicates_removed,
                   deduped_contacts, csvFile, reportFile, fnVars>>

WriteCsvFail_swallowed ==
    /\ pc = "write_csv"
    /\ \E k \in 0..(Len(CsvContent) - 1) : csvFile' = Partial(CsvContent, k)
    /\ pc' = "write_report"
    /\ UNCHANGED <<fileExists, fileRows, dirExists, readAttempted, contacts, row_i,
                   cleaned_contacts, stats, dedup_i, deduped, duplicates_removed,
                   deduped_contacts, reportFile, error, fnVars>>
\* writeheader/writerows raises after the file was opened
WriteCsvFail ==
    /\ pc = "write_csv"
    /\ \E k \in 0..(Len(CsvContent) - 1) : csvFile' = Partial(CsvContent, k)
    /\ Fail("OSError", <<"cleaned_contacts.csv">>)
    /\ UNCHANGED <<fileExists, fileRows, dirExists, readAttempted, contacts, row_i,
                   cleaned_contacts, stats, dedup_i, deduped, duplicates_removed,
                   deduped_contacts, reportFile, fnVars>>

WriteReport ==
    /\ pc = "write_report"
    /\ reportFile' = Full(ReportContent)
    /\ pc' = "done"
    /\ UNCHANGED <<fileExists, fileRows, dirExists, readAttempted, contacts, row_i,
                   cleaned_contacts, stats, dedup_i, deduped, duplicates_removed,
                   deduped_contacts, csvFile, error, fnVars>>

OpenReportFail ==
    /\ pc = "write_report"
    /\ Fail("OSError", <<"cleaning_report.txt">>)
    /\ UNCHANGED <<fileExists, fileRows, dirExists, readAttempted, contacts, row_i,
                   cleaned_contacts, stats, dedup_i, deduped, duplicates_removed,
                   deduped_contacts, csvFile, reportFile, fnVars>>

WriteReportFail ==
    /\ pc = "write_report"
    /\ \E k \in 0..(Len(ReportContent) - 1) : reportFile' = Partial(ReportContent, k)
    /\ Fail("OSError", <<"cleaning_report.txt">>)
    /\ UNCHANGED <<fileExists, fileRows, dirExists, readAttempted, contacts, row_i,
                   cleaned_contacts, stats, dedup_i, deduped, duplicates_removed,
                   deduped_contacts, csvFile, fnVars>>

Next ==
    \/ EnsureDir \/ EnsureDirFail
    \/ LoadMissing \/ LoadReadFail \/ LoadOk
    \/ CleanRow \/ EndCleanLoop
    \/ DedupNoEmail \/ DedupInsert \/ DedupDuplicate \/ EndDedupLoop
    \/ WriteCsv \/ OpenCsvFail \/ WriteCsvFail
    \/ WriteReport \/ OpenReportFail \/ WriteReportFail

Spec == Init /\ [][Next]_vars

\* ------------------------------------- the pure functions, one at a time
Strings(alphabet) == UNION { [1..n -> alphabet] : n \in 0..MaxLen }

NameInputs == Strings({"a", "B", "-", " ", "sz"}) \cup {None, N_scenario}
EmailInputs == Strings({"a", "B", "@", ".", " "}) \cup {None, E_scenario, E_tail, E_noemail}
PhoneInputs ==
    Strings({"+", "4", "0", " ", "-"})
    \cup {None, P_scenario,
          <<"0","0","4","4"," ","7","7","0","0"," ","9","0","0","1","2","3">>}
CompanyInputs == Strings({"a", "B", " ", "1", "sz"}) \cup {None, C_acme}

FnInputs ==
    [clean_name |-> NameInputs, clean_email |-> EmailInputs,
     clean_phone |-> PhoneInputs, clean_company |-> CompanyInputs,
     is_valid_email |-> EmailInputs \ {None},
     is_valid_uk_phone |-> {clean_phone(s) : s \in PhoneInputs} \cup {P_national},
     CountEmail |-> {clean_email(s) : s \in EmailInputs}]

FnInit ==
    /\ PipeStart
    /\ dirExists = FALSE
    /\ fileExists = FALSE
    /\ fileRows = <<>>
    /\ fn \in DOMAIN FnInputs
    /\ arg \in FnInputs[fn]
    /\ val = arg
    /\ prev = arg
    /\ applied = 0
    /\ valid = FALSE

ApplyClean(name, result) ==
    /\ fn = name
    /\ applied < MaxApply
    /\ prev' = val
    /\ val' = result
    /\ applied' = applied + 1
    /\ UNCHANGED <<fn, arg, valid, pipeVars>>

ApplyValid(name, result) ==
    /\ fn = name
    /\ applied = 0
    /\ valid' = result
    /\ applied' = 1
    /\ UNCHANGED <<fn, arg, val, prev, pipeVars>>

Apply_clean_name == ApplyClean("clean_name", clean_name(val))
Apply_clean_email == ApplyClean("clean_email", clean_email(val))
Apply_clean_phone == ApplyClean("clean_phone", clean_phone(val))
Apply_clean_company == ApplyClean("clean_company", clean_company(val))
Apply_is_valid_email == ApplyValid("is_valid_email", is_valid_email(val))
Apply_is_valid_uk_phone == ApplyValid("is_valid_uk_phone", is_valid_uk_phone(val))

\* the email branch of the accumulation pass, applied to fresh counters
Apply_CountEmail ==
    /\ fn = "CountEmail"
    /\ applied = 0
    /\ stats' = CountEmail(stats, val)
    /\ applied' = 1
    /\ UNCHANGED <<fn, arg, val, prev, valid, pc, fileExists, fileRows, dirExists,
                   readAttempted, contacts, row_i, cleaned_contacts, dedup_i,
                   deduped, duplicates_removed, deduped_contacts, csvFile,
                   reportFile, error>>

FnNext ==
    \/ Apply_clean_name \/ Apply_clean_email
    \/ Apply_clean_phone \/ Apply_clean_company
    \/ Apply_is_valid_email \/ Apply_is_valid_uk_phone
    \/ Apply_CountEmail

FnSpec == FnInit /\ [][FnNext]_vars

\* ================================================================ claims
Range(f) == {f[x] : x \in DOMAIN f}
Min(S) == CHOOSE x \in S : \A y \in S : x <= y
Max(S) == CHOOSE x \in S : \A y \in S : x >= y
Score(i) == completeness_score(cleaned_contacts[i])
EmailOf(i) == cleaned_contacts[i].email
Seen == 1..dedup_i
SameEmail(i) == {m \in Seen : EmailOf(m) = EmailOf(i)}
AfterDedup == pc \in {"write_csv", "write_report", "done"}
NormalisedEmail(row) == clean_email(Get(row, "email"))

\* C1: once the dedup loop has consumed the records, the number of
\* survivors is the number of distinct non-empty normalised emails plus the
\* number of records with an empty normalised email, and every empty-email
\* record seen so far still has an entry of its own in the index.
C1_RowsAfterDedup ==
    /\ Len(deduped) = Cardinality({EmailOf(i) : i \in Seen} \ {<<>>})
                      + Cardinality({i \in Seen : EmailOf(i) = <<>>})
    /\ \A i \in Seen : EmailOf(i) = <<>> =>
           Cardinality({p \in 1..Len(deduped) : deduped[p].v = i}) = 1
    /\ AfterDedup =>
           Len(deduped_contacts) =
               Cardinality({NormalisedEmail(contacts[i]) : i \in 1..Len(contacts)} \ {<<>>})
               + Cardinality({i \in 1..Len(contacts) : NormalisedEmail(contacts[i]) = <<>>})

\* two empty-email records with equal fields, then a record whose raw email
\* spells the synthetic key of the first; all three survive
C1_Witness ==
    /\ pc = "done"
    /\ Len(deduped_contacts) = 3
    /\ EmailOf(1) = <<>> /\ cleaned_contacts[1] = cleaned_contacts[2]
    /\ contacts[3].email = NoEmailKey(1)

\* C2: when the record being consumed has an email already in the index and
\* a strictly higher score than the stored record, the entry of that email
\* keeps its position and now holds the new record, that email has exactly
\* one entry, and duplicates_removed grows by one; the keys of the index
\* are always in first-seen order, and the CSV rows are the surviving
\* records in that order.
IsReplacement ==
    /\ pc = "dedup"
    /\ dedup_i < Len(cleaned_contacts)
    /\ EmailOf(dedup_i + 1) # <<>>
    /\ \E p \in 1..Len(deduped) :
           /\ deduped[p].k = EmailOf(dedup_i + 1)
           /\ Score(dedup_i + 1) > Score(deduped[p].v)

KeyAt(i) == IF EmailOf(i) = <<>> THEN NoEmailKey(i) ELSE EmailOf(i)
RECURSIVE FirstSeenKeys(_)
FirstSeenKeys(n) ==
    IF n = 0 THEN <<>>
    ELSE LET f == FirstSeenKeys(n - 1)
         IN  IF KeyAt(n) \in Range(f) THEN f ELSE Append(f, KeyAt(n))

C2_ReplaceStep ==
    IsReplacement =>
        LET c == dedup_i + 1
            p == CHOOSE q \in 1..Len(deduped) : deduped[q].k = EmailOf(c)
        IN  /\ deduped' = [deduped EXCEPT ![p] = [k |-> EmailOf(c), v |-> c]]
            /\ Cardinality({q \in 1..Len(deduped') : deduped'[q].k = EmailOf(c)}) = 1
            /\ duplicates_removed' = duplicates_removed + 1

C2_Order ==
    /\ [p \in 1..Len(deduped) |-> deduped[p].k] = FirstSeenKeys(dedup_i)
    /\ csvFile.state = "full" =>
           /\ Len(csvFile.content) = Len(deduped) + 1
           /\ \A p \in 1..Len(deduped) : \A k \in 1..4 :
                  csvFile.content[p + 1][k] = cleaned_contacts[deduped[p].v][FIELDNAMES[k]]

C2_Replacement == [][C2_ReplaceStep]_vars /\ []C2_Order

\* a replaced entry that is not the last one of the written output
C2_Witness ==
    /\ pc = "done"
    /\ \E p \in 1..(Len(deduped) - 1) :
           /\ EmailOf(deduped[p].v) # <<>>
           /\ deduped[p].v > deduped[p + 1].v
           /\ csvFile.content[p + 1][3] = cleaned_contacts[deduped[p].v].phone

\* C3: a later record with the same email and an equal or lower score
\* leaves the index as it is, and the survivor of an email is the earliest
\* record among those with the highest score for that email.
IsKept ==
    /\ pc = "dedup"
    /\ dedup_i < Len(cleaned_contacts)
    /\ EmailOf(dedup_i + 1) # <<>>
    /\ \E p \in 1..Len(deduped) :
           /\ deduped[p].k = EmailOf(dedup_i + 1)
           /\ Score(dedup_i + 1) <= Score(deduped[p].v)

C3_Survivor ==
    \A p \in 1..Len(deduped) :
        LET i == deduped[p].v
        IN  EmailOf(i) # <<>> =>
                i = Min({m \in SameEmail(i) :
                            Score(m) = Max({Score(x) : x \in SameEmail(i)})})

C3_TieBreak == [][IsKept => deduped' = deduped]_vars /\ []C3_Survivor

\* three records of one email, the later two tying on the highest score
C3_Witness ==
    /\ pc = "done"
    /\ \E i, j, m \in Seen :
           /\ i < j /\ j < m
           /\ EmailOf(i) # <<>> /\ EmailOf(j) = EmailOf(i) /\ EmailOf(m) = EmailOf(i)
           /\ Score(i) < Score(j) /\ Score(j) = Score(m)
           /\ cleaned_contacts[j] # cleaned_contacts[m]
           /\ \E p \in 1..Len(deduped) : deduped[p].v = j

\* C4: one record increments at most one of missing_email/invalid_email and
\* at most one of missing_phone/invalid_phone, an invalid_* counter only
\* for a non-empty cleaned field; so missing + invalid never exceeds total.
Delta(key) == stats'[key] - stats[key]

C4_Step ==
    (pc = "clean" /\ row_i' = row_i + 1) =>
        LET cleaned == cleaned_contacts'[row_i']
        IN  /\ Delta("total") = 1
            /\ Delta("missing_email") \in {0, 1} /\ Delta("invalid_email") \in {0, 1}
            /\ Delta("missing_phone") \in {0, 1} /\ Delta("invalid_phone") \in {0, 1}
            /\ Delta("missing_email") + Delta("invalid_email") <= 1
            /\ Delta("missing_phone") + Delta("invalid_phone") <= 1
            /\ Delta("invalid_email") = 1 => cleaned.email # <<>>
            /\ Delta("invalid_phone") = 1 => cleaned.phone # <<>>
            /\ Delta("missing_email") = 1 <=> cleaned.email = <<>>
            /\ Delta("missing_phone") = 1 <=> cleaned.phone = <<>>

C4_Bound ==
    /\ stats.missing_email + stats.invalid_email <= stats.total
    /\ stats.missing_phone + stats.invalid_phone <= stats.total

C4_Exclusive == [][C4_Step]_vars /\ []C4_Bound

C4_Witness ==
    /\ pc = "done"
    /\ stats.missing_email > 0 /\ stats.invalid_email > 0
    /\ stats.missing_phone > 0 /\ stats.invalid_phone > 0

\* The shape the pattern describes, stated on the whole string: no
\* whitespace, exactly one "@" that is not the first character, and a "."
\* with at least one character between the "@" and it and one after it.
EmailShape(t) ==
    /\ \A k \in 1..Len(t) : ~IsSpace(t[k])
    /\ Cardinality({k \in 1..Len(t) : t[k] = "@"}) = 1
    /\ LET a == CHOOSE k \in 1..Len(t) : t[k] = "@"
       IN  a > 1 /\ \E j \in (a + 2)..(Len(t) - 1) : t[j] = "."

HasValidPrefix(t) == \E n \in 0..Len(t) : EmailShape(SubSeq(t, 1, n))

\* C5 as stated: is_valid_email is true iff some prefix of the stripped
\* string has the shape, and a string with a valid prefix is not counted in
\* invalid_email.
C5_PrefixMatch ==
    /\ (fn = "is_valid_email" /\ applied = 1) =>
           (valid <=> HasValidPrefix(strip(arg)))
    /\ (fn = "CountEmail" /\ applied = 1 /\ HasValidPrefix(val)) =>
           stats.invalid_email = 0

\* C5 amended: is_valid_email is true iff the whole stripped string has the
\* shape; a non-empty cleaned email is counted in invalid_email exactly
\* when it does not, whatever prefix of it does.
C5_FullMatch ==
    /\ (fn = "is_valid_email" /\ applied = 1) =>
           (valid <=> EmailShape(strip(arg)))
    /\ (fn = "CountEmail" /\ applied = 1) =>
           /\ stats.invalid_email = (IF val # <<>> /\ ~EmailShape(val) THEN 1 ELSE 0)
           /\ stats.missing_email = (IF val = <<>> THEN 1 ELSE 0)

\* a valid prefix followed by a second "@": counted as invalid
C5_Witness ==
    /\ fn = "CountEmail" /\ applied = 1
    /\ val = E_tail
    /\ HasValidPrefix(val)
    /\ stats.invalid_email = 1

\* C6: each of clean_name, clean_email, clean_phone and clean_company
\* applied to its own result returns that result.
C6_Idempotent ==
    (fn \in {"clean_name", "clean_email", "clean_phone", "clean_company"}
        /\ applied >= 2) => val = prev

\* C7: clean_phone returns digits only; when the digits and "+" of the
\* input start with "+44" the result is "0" followed by the digits after
\* that prefix, otherwise it is the digits of the input in order.
RECURSIVE Keep(_, _)
Keep(s, chars) ==
    IF s = <<>> THEN <<>>
    ELSE (IF Head(s) \in chars THEN <<Head(s)>> ELSE <<>>) \o Keep(Tail(s), chars)
DigitChars == {"0","1","2","3","4","5","6","7","8","9"}
P_0044 == <<"0","0","4","4"," ","7","7","0","0"," ","9","0","0","1","2","3">>

C7_CleanPhone ==
    (fn = "clean_phone" /\ applied = 1) =>
        LET input == IF arg = None THEN <<>> ELSE arg
            reduced == Keep(input, DigitChars \cup {"+"})
        IN  /\ \A k \in 1..Len(val) : val[k] \in DigitChars
            /\ IF Len(reduced) >= 3 /\ reduced[1] = "+" /\ reduced[2] = "4" /\ reduced[3] = "4"
               THEN val = <<"0">> \o Keep(SubSeq(reduced, 4, Len(reduced)), DigitChars)
               ELSE val = Keep(input, DigitChars)
            /\ arg = P_0044 =>
                   val = <<"0","0","4","4","7","7","0","0","9","0","0","1","2","3">>
            /\ arg = P_scenario => val = P_national

C7_Witness ==
    /\ fn = "clean_phone" /\ applied = 1
    /\ arg = P_0044
    /\ val = <<"0","0","4","4","7","7","0","0","9","0","0","1","2","3">>

\* C8: when the input file does not exist the run never opens it, cleans or
\* deduplicates nothing and writes neither file, and the load step ends the
\* run with an IOError whose message contains the path.
C8_NothingDone ==
    ~fileExists =>
        /\ pc \in {"ensure_dir", "load", "failed"}
        /\ ~readAttempted
        /\ contacts = <<>> /\ cleaned_contacts = <<>> /\ row_i = 0
        /\ deduped = <<>> /\ dedup_i = 0 /\ deduped_contacts = <<>>
        /\ csvFile = Untouched /\ reportFile = Untouched

C8_LoadStep ==
    (pc = "load" /\ ~fileExists /\ pc' # pc) =>
        /\ pc' = "failed"
        /\ error'.type = "IOError"
        /\ DATA_FILE \in Range(error'.msg)
        /\ readAttempted' = FALSE

C8_MissingFile == [][C8_LoadStep]_vars /\ []C8_NothingDone

C8_Witness ==
    /\ pc = "failed"
    /\ ~fileExists
    /\ error = [type |-> "IOError", msg |-> <<"Contacts file not found: ", DATA_FILE>>]
    /\ dirExists

\* C9 as stated: a finished run, failed or not, has written both output
\* files fully or neither of them.
C9_BothOrNeither ==
    pc \in {"done", "failed"} =>
        \/ csvFile.state = "full" /\ reportFile.state = "full"
        \/ csvFile = Untouched /\ reportFile = Untouched

\* C9 amended: a run that ends normally has written both files fully, and
\* the report is touched only after the CSV has been written fully.
C9_ReportAfterCsv ==
    /\ pc = "done" => (csvFile.state = "full" /\ reportFile.state = "full")
    /\ reportFile # Untouched => csvFile.state = "full"
    /\ csvFile.state = "full" => csvFile.content = CsvContent
    /\ reportFile.state = "full" => reportFile.content = ReportContent

\* the CSV is complete and the run failed before the report was written
C9_Witness ==
    /\ pc = "failed"
    /\ csvFile.state = "full"
    /\ reportFile = Untouched

\* C10: after any prefix of the dedup loop the entries of the index plus
\* duplicates_removed equal the records consumed, duplicates_removed never
\* decreases, and the report has rows_after_dedup + duplicates_removed =
\* total_rows.
ReportValue(key) ==
    LET k == CHOOSE q \in 1..Len(reportFile.content) : reportFile.content[q][1] = key
    IN  reportFile.content[k][2]

C10_Count ==
    /\ Len(deduped) + duplicates_removed = dedup_i
    /\ reportFile.state = "full" =>
           ReportValue("rows_after_dedup") + ReportValue("duplicates_removed")
               = ReportValue("total_rows")
    /\ reportFile.state = "full" => ReportValue("total_rows") = Len(contacts)

C10_Conservation ==
    [][duplicates_removed' >= duplicates_removed]_vars /\ []C10_Count

\* a written report of a run that replaced one duplicate and kept another
C10_Witness ==
    /\ pc = "done"
    /\ reportFile.state = "full"
    /\ ReportValue("duplicates_removed") = 2
    /\ ReportValue("rows_after_dedup") = 1
    /\ deduped[1].v = 2

====
